---- MODULE Spec2Model ----
(***************************************************************************)
(* maple-proxy: the per-request pipeline of src/src/proxy.rs.              *)
(*                                                                         *)
(* A request is handled by one of the handlers health_check, list_models,  *)
(* create_chat_completion, create_embeddings.  The credentialed handlers   *)
(* run extract_api_key, then create_client_with_auth (client construction  *)
(* and attestation handshake), then one backend call; a streaming chat     *)
(* completion is translated by create_sse_stream, one event per poll.      *)
(*                                                                         *)
(* Strings that are only compared are TLA+ strings.  Header values and API *)
(* keys are byte sequences, because extract_api_key inspects their bytes.  *)
(* A formatted message is the sequence of its fragments: the literal text  *)
(* followed by the interpolated value.                                     *)
(***************************************************************************)
EXTENDS Naturals, Sequences, FiniteSets

\* ------------------------------------------------------------- bounds

\* Longest token X drawn for an "Authorization: Bearer X" header.
MaxTokenLen == 1

\* Longest backend stream (number of items before the stream ends).
MaxItems == 2

\* ------------------------------------------------- Option and Result

None == [tag |-> "None"]

Some(v) == [tag |-> "Some", val |-> v]

Ok(v) == [tag |-> "Ok", val |-> v]

Err(e) == [tag |-> "Err", err |-> e]

IsSome(o) == o.tag = "Some"

IsOk(x) == x.tag = "Ok"

\* Option::unwrap_or
unwrap_or(o, d) == IF IsSome(o) THEN o.val ELSE d

\* ------------------------------------------------------------ strings

\* All sequences over S of length at most n.
SeqUpTo(S, n) == UNION {[1..k -> S] : k \in 0..n}

\* str::strip_prefix: the rest of s when s starts with prefix.
strip_prefix(s, prefix) ==
    IF Len(s) >= Len(prefix) /\ SubSeq(s, 1, Len(prefix)) = prefix
    THEN Some(SubSeq(s, Len(prefix) + 1, Len(s)))
    ELSE None

\* "Bearer " as bytes.
BearerPrefix == <<66, 101, 97, 114, 101, 114, 32>>

\* HeaderValue::to_str: the value as a string when every byte is visible
\* ASCII (32..126) or a tab, an error otherwise.
to_str(bytes) ==
    IF \A i \in 1..Len(bytes) :
          (bytes[i] >= 32 /\ bytes[i] < 127) \/ bytes[i] = 9
    THEN Ok(bytes)
    ELSE Err("ToStrError")

\* ------------------------------------------------------------- errors

HTTP_OK == 200

UNAUTHORIZED == 401

INTERNAL_SERVER_ERROR == 500

NOT_FOUND == 404

METHOD_NOT_ALLOWED == 405

\* OpenAIError::new
OpenAIError_new(message, error_type) ==
    [error |-> [message |-> message, error_type |-> error_type,
                param |-> None, code |-> None]]

authentication_error(message) == OpenAIError_new(message, "invalid_request_error")

server_error(message) == OpenAIError_new(message, "server_error")

\* ---------------------------------------------------------- the inputs

\* Bytes of the API keys drawn: 'a' and 'b'.
KeyBytes == {97, 98}

Tokens == SeqUpTo(KeyBytes, MaxTokenLen)

\* Values of the Authorization header: "Bearer X" for every token X, and the
\* values that are not of that form: another scheme, a lower-case scheme, the
\* scheme without its space, a bare token, and values holding bytes that are
\* not visible ASCII (0xFF alone; "Bearer " followed by the UTF-8 bytes of
\* U+00E9).
HeaderValues ==
    {BearerPrefix \o t : t \in Tokens}
    \cup { <<66, 97, 115, 105, 99, 32, 97>>,
           <<98, 101, 97, 114, 101, 114, 32, 97>>,
           <<66, 101, 97, 114, 101, 114>>,
           <<97>>,
           <<255>>,
           BearerPrefix \o <<195, 169>> }

\* headers.get("authorization")
AuthHeaders == {None} \cup {Some(h) : h \in HeaderValues}

\* Config::default_api_key: none, "a", "b", and a key of nine bytes.
DefaultKeys == {None, Some(<<97>>), Some(<<98>>),
                Some(<<97, 98, 97, 98, 97, 98, 97, 98, 97>>)}

\* ChatCompletionRequest::stream
StreamFlags == {None, Some(TRUE), Some(FALSE)}

\* Display texts of the errors the opensecret client returns.
Causes == {"e1", "e2"}

\* Documents the backend returns.
Docs == {"d1", "d2"}

\* Chunks of a backend stream; serde_json::to_string fails on "cbad".
Chunks == {"c1", "c2", "cbad"}

\* Items of a backend stream: OpenSecretResult<ChatCompletionChunk>.
Items == {Ok(c) : c \in Chunks} \cup {Err(e) : e \in Causes}

Handlers == {"health_check", "list_models", "create_chat_completion",
             "create_embeddings"}

\* The request body of a handler: only create_chat_completion reads a field
\* of it (stream).
Bodies(handler) ==
    IF handler = "create_chat_completion"
    THEN {[model |-> "m", stream |-> s] : s \in StreamFlags}
    ELSE {[model |-> "m", stream |-> None]}

\* Mutant of the routes: create_embeddings is routed as well.
RoutesWithEmbeddings ==
    {[method |-> "GET", path |-> "/health", handler |-> "health_check"],
     [method |-> "GET", path |-> "/", handler |-> "health_check"],
     [method |-> "GET", path |-> "/v1/models", handler |-> "list_models"],
     [method |-> "POST", path |-> "/v1/chat/completions",
      handler |-> "create_chat_completion"],
     [method |-> "POST", path |-> "/v1/embeddings",
      handler |-> "create_embeddings"]}

\* The routes of create_app.
Routes ==
    {[method |-> "GET", path |-> "/health", handler |-> "health_check"],
     [method |-> "GET", path |-> "/", handler |-> "health_check"],
     [method |-> "GET", path |-> "/v1/models", handler |-> "list_models"],
     [method |-> "POST", path |-> "/v1/chat/completions",
      handler |-> "create_chat_completion"]}

Methods == {"GET", "POST"}

Paths == {"/health", "/", "/v1/models", "/v1/chat/completions", "/v1/embeddings"}

\* The handler the router enters for method and path, "none" without a route.
route(method, path) ==
    IF \E rt \in Routes : rt.method = method /\ rt.path = path
    THEN (CHOOSE rt \in Routes : rt.method = method /\ rt.path = path).handler
    ELSE "none"

\* How a handler is entered: through the router of create_app, or called
\* directly (the handlers are public functions of the proxy module).
RoutedEntries ==
    {[via |-> "router", method |-> m, path |-> p, handler |-> route(m, p)] :
        m \in Methods, p \in Paths}

DirectEntries ==
    {[via |-> "direct", method |-> "none", path |-> "none", handler |-> h] :
        h \in Handlers}

Entries == RoutedEntries \cup DirectEntries

\* Request slots; Serial is the one slot of a server that handles its
\* requests one after the other.
Requests == {"r1", "r2"}

Serial == {"r1"}

\* The inputs of two requests handled at once: the routed handlers and
\* create_embeddings, the headers "Bearer a" and "Bearer b" or none, backend
\* streams of at most one item.
ConcEntries ==
    {e \in RoutedEntries : e.handler # "none"}
    \cup {e \in DirectEntries : e.handler = "create_embeddings"}

ConcHeaders == {None, Some(BearerPrefix \o <<97>>), Some(BearerPrefix \o <<98>>)}

ConcStreams == {<<>>} \cup {<<i>> : i \in Items}

\* -------------------------------------------------------------- state

VARIABLES
    config,   \* ProxyState::config, fixed at startup
    req       \* req[r]: the request handled in slot r

vars == <<config, req>>

IdleReq ==
    [pc |-> "idle", via |-> "none", method |-> "none", path |-> "none",
     handler |-> "none", headers |-> None,
     body |-> [model |-> "m", stream |-> None],
     api_key |-> None, client |-> None, failure |-> None,
     resp |-> <<>>, calls |-> <<>>, log |-> <<>>,
     bstream |-> <<>>, gen |-> "none", pulls |-> 0, events |-> <<>>]

Init ==
    /\ config \in {[backend_url |-> "https://enclave.trymaple.ai",
                    default_api_key |-> k] : k \in DefaultKeys}
    /\ req = [r \in Requests |-> IdleReq]

\* ------------------------------------------------------- pure helpers

\* Mutant of extract_api_key: with neither header nor default, an empty key
\* instead of an error.
extract_api_key_lenient(headers, default_key) ==
    LET auth_str == to_str(headers.val)
        key == strip_prefix(auth_str.val, BearerPrefix)
    IN  IF IsSome(headers) /\ ~IsOk(auth_str)
        THEN Err(authentication_error(<<"Invalid Authorization header format">>))
        ELSE IF IsSome(headers) /\ IsSome(key)
        THEN Ok(key.val)
        ELSE Ok(unwrap_or(default_key, <<>>))

\* extract_api_key: the key of the Authorization header when the header is
\* "Bearer <key>"; an error when the header is not a string; the configured
\* default in every other case, and an error when there is none.
extract_api_key(headers, default_key) ==
    LET auth_str == to_str(headers.val)
        key == strip_prefix(auth_str.val, BearerPrefix)
    IN  IF IsSome(headers) /\ ~IsOk(auth_str)
        THEN Err(authentication_error(<<"Invalid Authorization header format">>))
        ELSE IF IsSome(headers) /\ IsSome(key)
        THEN Ok(key.val)
        ELSE IF IsSome(default_key)
        THEN Ok(default_key.val)
        ELSE Err(authentication_error(
                 <<"No API key provided. Set MAPLE_API_KEY environment variable or provide Authorization header">>))

\* min
Min(a, b) == IF a < b THEN a ELSE b

\* &api_key[..8.min(api_key.len())]: what list_models logs of the key.
LoggedKeyLen == 8

key_prefix(api_key) == SubSeq(api_key, 1, Min(LoggedKeyLen, Len(api_key)))

\* The error of a failed OpenSecretClient::new_with_api_key.
construct_error(e) == server_error(<<"Failed to create client: ", e>>)

\* The error of a failed perform_attestation_handshake.
handshake_error(e) ==
    server_error(<<"Failed to establish secure connection with Maple backend">>)

\* Mutant of backend_error: the message is the cause alone.
backend_error_bare(what, e) == server_error(<<e>>)

\* The error of a failed backend call.
backend_error(what, e) == server_error(<<what, e>>)

\* request.stream.unwrap_or(false): whether the streaming call is chosen.
stream_requested(request) == unwrap_or(request.stream, FALSE)

\* Mutant of non_streaming: the request is forwarded as it came.
non_streaming_as_is(request) == request

\* request.stream = Some(false): the request of the non-streaming call.
non_streaming(request) == [request EXCEPT !.stream = Some(FALSE)]

\* serde_json::to_string(&chunk)
to_string(chunk) ==
    IF chunk = "cbad"
    THEN Err("key must be a string")
    ELSE Ok(<<"{\"chunk\": ", chunk, "}">>)

\* Event::default().data(..)
Event(data) == [data |-> data]

data_event(json) == Event(json)

serialize_error_event(e) ==
    Event(<<"{\"error\": \"Failed to serialize chunk: ", e, "\"}">>)

stream_error_event(e) == Event(<<"{\"error\": \"Stream error: ", e, "\"}">>)

done_event == Event(<<"[DONE]">>)

\* ------------------------------------------------------------ actions

Credentialed == {"list_models", "create_chat_completion", "create_embeddings"}

\* The handler returns: one response, and the request is over.
Respond(q, status, body) ==
    [q EXCEPT !.resp = Append(@, [status |-> status, body |-> body]),
              !.pc = "done"]

Json(doc) == [kind |-> "json", doc |-> doc]

\* Sse::new(sse_stream): the body is the event stream.
Sse == [kind |-> "sse", doc |-> "text/event-stream"]

Called(q, call) == [q EXCEPT !.calls = Append(@, call)]

Logged(q, level, msg, args) ==
    [q EXCEPT !.log = Append(@, [level |-> level, msg |-> msg, args |-> args])]

Failed(q, stage, e) ==
    [q EXCEPT !.failure = Some([stage |-> stage, cause |-> e])]

Set(r, q) ==
    /\ req' = [req EXCEPT ![r] = q]
    /\ UNCHANGED config

\* A request enters a handler, or finds no route, with its headers and body.
ReceiveFrom(r, entries, headers) ==
    /\ req[r].pc = "idle"
    /\ \E e \in entries, hd \in headers :
         \E b \in Bodies(e.handler) :
            Set(r, [IdleReq EXCEPT !.pc = "handler", !.via = e.via,
                                   !.method = e.method, !.path = e.path,
                                   !.handler = e.handler,
                                   !.headers = hd, !.body = b])

Receive(r) == ReceiveFrom(r, Entries, AuthHeaders)

\* The router has no route for the request: 405 when the path has a route
\* for another method, 404 otherwise.
NoRoute(r) ==
    /\ req[r].pc = "handler"
    /\ req[r].handler = "none"
    /\ Set(r, Respond(req[r],
                      IF \E rt \in Routes : rt.path = req[r].path
                      THEN METHOD_NOT_ALLOWED ELSE NOT_FOUND,
                      [kind |-> "empty", doc |-> "none"]))

\* Mutant of health_check: the handler asks for a credential first.
HealthCheckWithKey(r) ==
    /\ req[r].pc = "handler"
    /\ req[r].handler = "health_check"
    /\ LET res == extract_api_key(req[r].headers, config.default_api_key) IN
       IF IsOk(res)
       THEN Set(r, Respond(req[r], HTTP_OK,
                           Json([status |-> "ok", service |-> "maple-proxy",
                                 version |-> "CARGO_PKG_VERSION"])))
       ELSE Set(r, Respond(req[r], UNAUTHORIZED, Json(res.err)))

\* health_check
HealthCheck(r) ==
    /\ req[r].pc = "handler"
    /\ req[r].handler = "health_check"
    /\ Set(r, Respond(req[r], HTTP_OK,
                      Json([status |-> "ok", service |-> "maple-proxy",
                            version |-> "CARGO_PKG_VERSION"])))

\* What each handler logs once the key is resolved.
AfterExtractLog(q, api_key) ==
    CASE q.handler = "list_models" ->
           Logged(q, "debug", "Listing models for API key: {}...",
                  <<key_prefix(api_key)>>)
      [] q.handler = "create_chat_completion" ->
           Logged(q, "debug", "Chat completion request for model: {}, stream: {:?}",
                  <<q.body.model, unwrap_or(q.body.stream, FALSE)>>)
      [] OTHER ->
           Logged(q, "debug", "Embeddings request for model: {}", <<q.body.model>>)

\* The first step of list_models, create_chat_completion and
\* create_embeddings: extract_api_key, 401 when it fails.
ExtractApiKey(r) ==
    LET q == req[r]
        res == extract_api_key(q.headers, config.default_api_key)
        c == Called(q, [fn |-> "extract_api_key", ok |-> IsOk(res)])
    IN  /\ q.pc = "handler"
        /\ q.handler \in Credentialed
        /\ IF IsOk(res)
           THEN Set(r, [AfterExtractLog(c, res.val) EXCEPT
                            !.api_key = Some(res.val), !.pc = "construct"])
           ELSE Set(r, Respond(Failed(c, "credential", "auth"),
                               UNAUTHORIZED, Json(res.err)))

\* Mutant of the construction step: the session another request has
\* verified is used when there is one.
NewWithApiKeyCached(r) ==
    LET q == req[r] IN
    /\ q.pc = "construct"
    /\ \/ \E s \in Requests \ {r} :
            /\ IsSome(req[s].client)
            /\ req[s].client.val.attested
            /\ Set(r, [q EXCEPT !.client = req[s].client, !.pc = "dispatch"])
       \/ \E res \in {Ok("client")} \cup {Err(e) : e \in Causes} :
            LET c == Called(q, [fn |-> "new_with_api_key", ok |-> IsOk(res)]) IN
            IF IsOk(res)
            THEN Set(r, [c EXCEPT !.client = Some([backend_url |-> config.backend_url,
                                                   api_key |-> q.api_key.val,
                                                   attested |-> FALSE]),
                                  !.pc = "handshake"])
            ELSE Set(r, Respond(Failed(c, "construct", res.err),
                                INTERNAL_SERVER_ERROR,
                                Json(construct_error(res.err))))

\* Mutant of the construction step: the client is bound to the key of
\* whichever request resolved one.
NewWithApiKeyAnyKey(r) ==
    LET q == req[r] IN
    /\ q.pc = "construct"
    /\ \E s \in Requests :
         /\ IsSome(req[s].api_key)
         /\ Set(r, [Called(q, [fn |-> "new_with_api_key", ok |-> TRUE]) EXCEPT
                        !.client = Some([backend_url |-> config.backend_url,
                                         api_key |-> req[s].api_key.val,
                                         attested |-> FALSE]),
                        !.pc = "handshake"])

\* Mutant of the construction step: a failed construction is tried again.
NewWithApiKeyRetry(r) ==
    LET q == req[r] IN
    /\ q.pc = "construct"
    /\ \E res \in {Ok("client")} \cup {Err(e) : e \in Causes} :
         LET c == Called(q, [fn |-> "new_with_api_key", ok |-> IsOk(res)]) IN
         IF IsOk(res)
         THEN Set(r, [c EXCEPT !.client = Some([backend_url |-> config.backend_url,
                                                api_key |-> q.api_key.val,
                                                attested |-> FALSE]),
                               !.pc = "handshake"])
         ELSE Set(r, c)

\* create_client_with_auth, first half: OpenSecretClient::new_with_api_key.
NewWithApiKey(r) ==
    LET q == req[r] IN
    /\ q.pc = "construct"
    /\ \E res \in {Ok("client")} \cup {Err(e) : e \in Causes} :
         LET c == Called(q, [fn |-> "new_with_api_key", ok |-> IsOk(res)]) IN
         IF IsOk(res)
         THEN Set(r, [c EXCEPT !.client = Some([backend_url |-> config.backend_url,
                                                api_key |-> q.api_key.val,
                                                attested |-> FALSE]),
                               !.pc = "handshake"])
         ELSE Set(r, Respond(Failed(c, "construct", res.err),
                             INTERNAL_SERVER_ERROR, Json(construct_error(res.err))))

\* Mutant of PerformAttestationHandshake: the handshake is left out and the
\* client is used as it was constructed.
SkipAttestationHandshake(r) ==
    /\ req[r].pc = "handshake"
    /\ Set(r, [req[r] EXCEPT !.pc = "dispatch"])

\* create_client_with_auth, second half: perform_attestation_handshake.
PerformAttestationHandshake(r) ==
    LET q == req[r] IN
    /\ q.pc = "handshake"
    /\ \E res \in {Ok("attested")} \cup {Err(e) : e \in Causes} :
         LET c == Called(q, [fn |-> "perform_attestation_handshake",
                             ok |-> IsOk(res)]) IN
         IF IsOk(res)
         THEN Set(r, [c EXCEPT !.client = Some([@.val EXCEPT !.attested = TRUE]),
                               !.pc = "dispatch"])
         ELSE Set(r, Respond(Failed(Logged(c, "error",
                                           "Attestation handshake failed: {}",
                                           <<res.err>>),
                                    "handshake", res.err),
                             INTERNAL_SERVER_ERROR, Json(handshake_error(res.err))))

\* A backend call that answers with one document: the document with 200, or
\* a server error naming the operation.
SingleCall(r, fn, request, what, errlog, oklog) ==
    LET q == req[r] IN
    \E res \in {Ok(d) : d \in Docs} \cup {Err(e) : e \in Causes} :
       LET c == Called(q, [fn |-> fn, ok |-> IsOk(res), key |-> q.client.val.api_key,
                           attested |-> q.client.val.attested,
                           request |-> request, ret |-> res]) IN
       IF IsOk(res)
       THEN Set(r, Respond(Logged(c, "debug", oklog, <<res.val>>),
                           HTTP_OK, Json(res.val)))
       ELSE Set(r, Respond(Failed(Logged(c, "error", errlog, <<res.err>>),
                                  "backend", res.err),
                           INTERNAL_SERVER_ERROR, Json(backend_error(what, res.err))))

\* list_models: client.get_models()
GetModels(r) ==
    /\ req[r].pc = "dispatch"
    /\ req[r].handler = "list_models"
    /\ SingleCall(r, "get_models", req[r].body, "Failed to retrieve models: ",
                  "Failed to get models: {}", "Successfully retrieved {} models")

\* create_embeddings: client.create_embeddings(request)
CreateEmbeddings(r) ==
    /\ req[r].pc = "dispatch"
    /\ req[r].handler = "create_embeddings"
    /\ SingleCall(r, "create_embeddings", req[r].body,
                  "Failed to create embeddings: ",
                  "Failed to create embeddings: {}",
                  "Successfully created embeddings with {} vectors")

\* create_chat_completion, non-streaming branch.
CreateChatCompletion(r) ==
    /\ req[r].pc = "dispatch"
    /\ req[r].handler = "create_chat_completion"
    /\ ~stream_requested(req[r].body)
    /\ SingleCall(r, "create_chat_completion", non_streaming(req[r].body),
                  "Failed to create completion: ",
                  "Failed to create chat completion: {}",
                  "Successfully created chat completion: {}")

\* create_chat_completion, streaming branch: the backend stream is opened
\* and the response starts (200, text/event-stream), or 500.
CreateChatCompletionStreamOf(r, streams) ==
    LET q == req[r] IN
    /\ q.pc = "dispatch"
    /\ q.handler = "create_chat_completion"
    /\ stream_requested(q.body)
    /\ \E res \in {Ok(s) : s \in streams} \cup {Err(e) : e \in Causes} :
         LET c == Called(q, [fn |-> "create_chat_completion_stream",
                             ok |-> IsOk(res), key |-> q.client.val.api_key,
                             attested |-> q.client.val.attested,
                             request |-> q.body, ret |-> res]) IN
         IF IsOk(res)
         THEN Set(r, [Respond(c, HTTP_OK, Sse) EXCEPT
                          !.bstream = res.val, !.gen = "loop", !.pc = "sse"])
         ELSE Set(r, Respond(Failed(Logged(c, "error",
                                  "Failed to create streaming chat completion: {}",
                                  <<res.err>>),
                                    "backend", res.err),
                             INTERNAL_SERVER_ERROR,
                             Json(backend_error("Failed to create streaming completion: ",
                                                res.err))))

CreateChatCompletionStream(r) ==
    CreateChatCompletionStreamOf(r, SeqUpTo(Items, MaxItems))

Yield(q, event) == [q EXCEPT !.events = Append(@, event)]

\* Mutant of the loop body: a chunk is kept back instead of yielded.
sse_item_buffered(q, item) ==
    IF IsOk(item)
    THEN [q EXCEPT !.gen = "loop"]
    ELSE [Yield(Logged(q, "error", "Stream error: {}", <<item.err>>),
                stream_error_event(item.err)) EXCEPT !.gen = "break"]

\* Mutant of the loop body: the loop goes on after a failed item.
sse_item_continue(q, item) ==
    IF IsOk(item)
    THEN LET json == to_string(item.val) IN
         IF IsOk(json)
         THEN [Yield(q, data_event(json.val)) EXCEPT !.gen = "loop"]
         ELSE [Yield(Logged(q, "error", "Failed to serialize chunk: {}",
                            <<json.err>>),
                     serialize_error_event(json.err)) EXCEPT !.gen = "loop"]
    ELSE [Yield(Logged(q, "error", "Stream error: {}", <<item.err>>),
                stream_error_event(item.err)) EXCEPT !.gen = "loop"]

\* One turn of the while loop of create_sse_stream on the item pulled.
sse_item(q, item) ==
    IF IsOk(item)
    THEN LET json == to_string(item.val) IN
         IF IsOk(json)
         THEN [Yield(q, data_event(json.val)) EXCEPT !.gen = "loop"]
         ELSE [Yield(Logged(q, "error", "Failed to serialize chunk: {}",
                            <<json.err>>),
                     serialize_error_event(json.err)) EXCEPT !.gen = "break"]
    ELSE [Yield(Logged(q, "error", "Stream error: {}", <<item.err>>),
                stream_error_event(item.err)) EXCEPT !.gen = "break"]

\* Mutant of sse_after_loop: the producer neither emits [DONE] nor ends.
sse_after_loop_stuck(q) == [q EXCEPT !.gen = "break"]

\* Mutant of sse_after_loop: the stream ends without its [DONE] event.
sse_after_loop_silent(q) == [q EXCEPT !.gen = "done"]

\* What follows the loop of create_sse_stream, left by exhaustion or by
\* break: the [DONE] event.
sse_after_loop(q) == [Yield(q, done_event) EXCEPT !.gen = "done"]

\* Mutant of create_sse_stream: the producer runs detached from the
\* response and goes on after the client has gone.
SsePollDetached(r) ==
    LET q == req[r] IN
    /\ q.pc \in {"sse", "dropped"}
    /\ CASE q.gen = "loop" ->
              LET p == [q EXCEPT !.pulls = @ + 1] IN
              IF q.pulls < Len(q.bstream)
              THEN Set(r, sse_item(p, q.bstream[q.pulls + 1]))
              ELSE Set(r, sse_after_loop(p))
         [] q.gen = "break" -> Set(r, sse_after_loop(q))
         [] OTHER -> Set(r, [q EXCEPT !.gen = "end", !.pc = "done"])

\* create_sse_stream, one poll of the outbound stream: the generator runs
\* to its next yield, or to its end.
SsePoll(r) ==
    LET q == req[r] IN
    /\ q.pc = "sse"
    /\ CASE q.gen = "loop" ->
              LET p == [q EXCEPT !.pulls = @ + 1] IN
              IF q.pulls < Len(q.bstream)
              THEN Set(r, sse_item(p, q.bstream[q.pulls + 1]))
              ELSE Set(r, sse_after_loop(p))
         [] q.gen = "break" -> Set(r, sse_after_loop(q))
         [] OTHER -> Set(r, [q EXCEPT !.gen = "end", !.pc = "done"])

\* The client disconnects during a streaming response: the response body,
\* and with it the stream of create_sse_stream, is dropped where it stands
\* and is not polled again.
Disconnect(r) ==
    /\ req[r].pc = "sse"
    /\ Set(r, [req[r] EXCEPT !.pc = "dropped"])

\* The request is over and its slot is free for the next one.
Finish(r) ==
    /\ req[r].pc \in {"done", "dropped"}
    /\ Set(r, IdleReq)

Next ==
    \E r \in Serial :
        \/ Receive(r)
        \/ NoRoute(r)
        \/ HealthCheck(r)
        \/ ExtractApiKey(r)
        \/ NewWithApiKey(r)
        \/ PerformAttestationHandshake(r)
        \/ GetModels(r)
        \/ CreateEmbeddings(r)
        \/ CreateChatCompletion(r)
        \/ CreateChatCompletionStream(r)
        \/ SsePoll(r)
        \/ Disconnect(r)
        \/ Finish(r)

Spec == Init /\ [][Next]_vars

\* The client of a streaming response keeps polling it.
FairSpec == Spec /\ \A r \in Serial : WF_vars(SsePoll(r))

\* Two requests handled at once, their steps interleaved.
NextConc ==
    \E r \in Requests :
        \/ ReceiveFrom(r, ConcEntries, ConcHeaders)
        \/ HealthCheck(r)
        \/ ExtractApiKey(r)
        \/ NewWithApiKey(r)
        \/ PerformAttestationHandshake(r)
        \/ GetModels(r)
        \/ CreateEmbeddings(r)
        \/ CreateChatCompletion(r)
        \/ CreateChatCompletionStreamOf(r, ConcStreams)
        \/ SsePoll(r)
        \/ Disconnect(r)
        \/ Finish(r)

SpecConc == Init /\ [][NextConc]_vars

\* ------------------------------------------------- claims: vocabulary

BackendOps == {"get_models", "create_chat_completion",
               "create_chat_completion_stream", "create_embeddings"}

\* The request has been through extract_api_key.
Resolved(q) == q.pc \notin {"idle", "handler"}

\* A header value of the form "Bearer X", X a string.
IsBearerForm(h) == IsOk(to_str(h)) /\ IsSome(strip_prefix(h, BearerPrefix))

\* The item fails: a transport error, or a chunk that does not serialize.
Fails(item) == IF IsOk(item) THEN ~IsOk(to_string(item.val)) ELSE TRUE

\* The index of the first failing item of stream s, 0 when none fails.
FirstFailure(s) ==
    IF \E i \in 1..Len(s) : Fails(s[i])
    THEN CHOOSE i \in 1..Len(s) : Fails(s[i]) /\ \A j \in 1..(i - 1) : ~Fails(s[j])
    ELSE 0

\* The data events of the first n items of s, all of them chunks.
DataEvents(s, n) == [i \in 1..n |-> data_event(to_string(s[i].val).val)]

\* The outbound stream of request q has ended.
StreamEnded(q) == q.gen = "end"

\* The event is the one event of the item: the data event of a chunk, the
\* error event of a chunk that does not serialize or of a transport error.
EventOfItem(ev, item) ==
    IF ~IsOk(item) THEN ev = stream_error_event(item.err)
    ELSE IF IsOk(to_string(item.val)) THEN ev = data_event(to_string(item.val).val)
    ELSE ev = serialize_error_event(to_string(item.val).err)

\* The error type of the one response of q.
ErrorType(q) == q.resp[1].body.doc.error.error_type

ErrorMessage(q) == q.resp[1].body.doc.error.message

\* ---------------------------------------------------------------- C1

\* C1: when the backend stream yields N chunks and then a transport error,
\* the outbound sequence is exactly the N data events followed by one error
\* event; no [DONE] event follows the error event.
C1_NoSentinelAfterError ==
    \A r \in Requests :
       LET q == req[r]
           f == FirstFailure(q.bstream)
       IN  (StreamEnded(q) /\ f # 0 /\ ~IsOk(q.bstream[f]))
           => q.events = DataEvents(q.bstream, f - 1)
                         \o <<stream_error_event(q.bstream[f].err)>>

\* ---------------------------------------------------------------- C2

C3_MissingCredentialIs401 ==
    \A r \in Requests :
       LET q == req[r] IN
       (/\ q.handler \in Credentialed
        /\ Resolved(q)
        /\ q.headers = None
        /\ config.default_api_key = None)
       => /\ q.pc = "done"
          /\ Len(q.resp) = 1
          /\ q.resp[1].status = UNAUTHORIZED
          /\ q.resp[1].body.kind = "json"
          /\ ErrorType(q) = "invalid_request_error"
          /\ q.client = None
          /\ \A i \in 1..Len(q.calls) : q.calls[i].fn = "extract_api_key"

\* A create_embeddings request without header or default has been answered.
C3_Witness ==
    \E r \in Requests :
       /\ req[r].handler = "create_embeddings"
       /\ req[r].pc = "done"
       /\ req[r].headers = None
       /\ config.default_api_key = None

\* ---------------------------------------------------------------- C4

\* C4: a header "Bearer X" resolves to exactly X (X empty included), whatever
\* the configured default; the default is the resolved key only when the
\* request has no Authorization header.
C4_BearerWinsDefaultOnlyWithoutHeader ==
    \A r \in Requests :
       LET q == req[r] IN
       (q.handler \in Credentialed /\ Resolved(q))
       => /\ (IsSome(q.headers) /\ IsBearerForm(q.headers.val))
             => q.api_key = Some(strip_prefix(q.headers.val, BearerPrefix).val)
          /\ (IsSome(q.headers) /\ ~IsBearerForm(q.headers.val))
             => q.api_key = None
          /\ (~IsSome(q.headers) /\ IsSome(config.default_api_key))
             => q.api_key = config.default_api_key

\* ---------------------------------------------------------------- C5

\* C5: an Authorization header that is present and not of the form
\* "Bearer <token>" is answered 401 with an invalid_request_error document,
\* default key or not; the default is never used in its place.
C5_MalformedHeaderIs401 ==
    \A r \in Requests :
       LET q == req[r] IN
       (/\ q.handler \in Credentialed
        /\ Resolved(q)
        /\ IsSome(q.headers)
        /\ ~IsBearerForm(q.headers.val))
       => /\ q.pc = "done"
          /\ q.api_key = None
          /\ Len(q.resp) = 1
          /\ q.resp[1].status = UNAUTHORIZED
          /\ ErrorType(q) = "invalid_request_error"

\* ---------------------------------------------------------------- C6

\* C6: in every handler the steps come in the order extract_api_key,
\* new_with_api_key, perform_attestation_handshake, backend call, each made
\* only after the one before it succeeded: a failed extract_api_key is
\* followed by no construction, and a failed construction or handshake by no
\* backend call.
C6_PipelineOrder ==
    \A r \in Requests :
       LET c == req[r].calls IN
       \A i \in 1..Len(c) :
          /\ c[i].fn = "extract_api_key" => i = 1
          /\ c[i].fn = "new_with_api_key"
             => i = 2 /\ c[1].fn = "extract_api_key" /\ c[1].ok
          /\ c[i].fn = "perform_attestation_handshake"
             => i = 3 /\ c[2].fn = "new_with_api_key" /\ c[2].ok
          /\ c[i].fn \in BackendOps
             => /\ i = 4
                /\ c[3].fn = "perform_attestation_handshake"
                /\ c[3].ok
                /\ req[r].handler \in Credentialed

\* A request whose handshake failed is over, and a request has made its
\* backend call.
C6_Witness ==
    \E r \in Requests :
       /\ req[r].pc = "done"
       /\ Len(req[r].calls) = 3
       /\ ~req[r].calls[3].ok
       /\ req[r].handler = "create_chat_completion"

\* ---------------------------------------------------------------- C7

\* C7: a failed bootstrap, at the construction of the client or at the
\* handshake, is answered 500 with a server_error document whose message
\* does not hold the cause of the failure, so that two causes give the same
\* response.
C7_BootstrapCauseWithheld ==
    \A r \in Requests :
       LET q == req[r] IN
       (IsSome(q.failure) /\ q.failure.val.stage \in {"construct", "handshake"})
       => /\ Len(q.resp) = 1
          /\ q.resp[1].status = INTERNAL_SERVER_ERROR
          /\ ErrorType(q) = "server_error"
          /\ \A i \in 1..Len(ErrorMessage(q)) :
                ErrorMessage(q)[i] # q.failure.val.cause

\* ---------------------------------------------------------------- C8

\* The text that names the backend call fn in an error message.
OperationText(fn) ==
    CASE fn = "get_models" -> "Failed to retrieve models: "
      [] fn = "create_chat_completion" -> "Failed to create completion: "
      [] fn = "create_chat_completion_stream" ->
           "Failed to create streaming completion: "
      [] OTHER -> "Failed to create embeddings: "

\* C8: a request that fails before its response has started gets exactly one
\* response: 401 and invalid_request_error for a credential failure, 500 and
\* server_error for a failed bootstrap or backend call, the message of the
\* latter naming the call; never 200, never a second response.
C8_OneErrorResponse ==
    \A r \in Requests :
       LET q == req[r] IN
       /\ Len(q.resp) <= 1
       /\ IsSome(q.failure)
          => /\ q.pc = "done"
             /\ Len(q.resp) = 1
             /\ q.resp[1].body.kind = "json"
             /\ q.events = <<>>
             /\ CASE q.failure.val.stage = "credential" ->
                       /\ q.resp[1].status = UNAUTHORIZED
                       /\ ErrorType(q) = "invalid_request_error"
                  [] q.failure.val.stage \in {"construct", "handshake"} ->
                       /\ q.resp[1].status = INTERNAL_SERVER_ERROR
                       /\ ErrorType(q) = "server_error"
                  [] OTHER ->
                       /\ q.resp[1].status = INTERNAL_SERVER_ERROR
                       /\ ErrorType(q) = "server_error"
                       /\ Len(q.calls) = 4
                       /\ ErrorMessage(q)[1] = OperationText(q.calls[4].fn)

\* The opening of a chat completion stream has failed and been answered.
C8_Witness ==
    \E r \in Requests :
       /\ req[r].pc = "done"
       /\ IsSome(req[r].failure)
       /\ req[r].failure.val.stage = "backend"
       /\ req[r].calls[4].fn = "create_chat_completion_stream"

\* ---------------------------------------------------------------- C9

\* C9: once the streaming response has started (200, event stream), a later
\* failure of the stream, transport error or serialization failure, is the
\* final event of the sequence and the status stays 200; a stream that could
\* not be opened is answered 500 and no event is emitted.
C9_StreamErrorIsFinalEvent ==
    \A r \in Requests :
       LET q == req[r]
           f == FirstFailure(q.bstream)
       IN  /\ (StreamEnded(q) /\ f # 0)
              => /\ q.resp = <<[status |-> HTTP_OK, body |-> Sse]>>
                 /\ EventOfItem(q.events[Len(q.events)], q.bstream[f])
           /\ (/\ Len(q.calls) = 4
               /\ q.calls[4].fn = "create_chat_completion_stream"
               /\ ~q.calls[4].ok)
              => /\ q.resp[1].status = INTERNAL_SERVER_ERROR
                 /\ q.events = <<>>

\* ---------------------------------------------------------------- C10

\* C10: create_chat_completion makes the streaming call exactly when the
\* stream flag of the request is Some(true); otherwise it makes the one
\* non-streaming call, with the stream flag of the forwarded request set to
\* Some(false) and the rest of the request unchanged, and answers with the
\* document of that call; it never makes both calls.
C10_StreamingChoice ==
    \A r \in Requests :
       LET q == req[r] IN
       (q.handler = "create_chat_completion" /\ Len(q.calls) >= 4)
       => /\ Len(q.calls) = 4
          /\ \A i \in 1..3 : q.calls[i].fn \notin BackendOps
          /\ q.calls[4].fn = "create_chat_completion_stream"
             <=> q.body.stream = Some(TRUE)
          /\ q.calls[4].fn = "create_chat_completion"
             <=> q.body.stream # Some(TRUE)
          /\ q.calls[4].fn = "create_chat_completion"
             => /\ q.calls[4].request.stream = Some(FALSE)
                /\ q.calls[4].request.model = q.body.model
                /\ q.events = <<>>
                /\ IsOk(q.calls[4].ret)
                   => q.resp = <<[status |-> HTTP_OK,
                                  body |-> Json(q.calls[4].ret.val)]>>

\* A chat completion without a stream flag has been answered with the
\* document of the non-streaming call.
C10_Witness ==
    \E r \in Requests :
       /\ req[r].pc = "done"
       /\ req[r].handler = "create_chat_completion"
       /\ req[r].body.stream = None
       /\ Len(req[r].calls) = 4
       /\ req[r].calls[4].ret = Ok("d2")

\* ---------------------------------------------------------------- C11

\* C11: GET /health and GET / enter health_check, and the step of
\* health_check answers 200 with the document {status: "ok", service:
\* "maple-proxy", version: a string} whatever the configuration and whatever
\* the other request is doing; it resolves no credential, builds no client,
\* makes no call, writes no log, and changes neither the configuration nor
\* the other request.
C11_HealthCheckPure ==
    [][\A r \in Requests :
          /\ (req[r].via = "router" /\ req[r].method = "GET"
              /\ req[r].path \in {"/health", "/"})
             => req[r].handler = "health_check"
          /\ (req[r].handler = "health_check" /\ req[r].pc = "handler"
              /\ req'[r] # req[r])
             => /\ req'[r] = [req[r] EXCEPT
                                !.pc = "done",
                                !.resp = <<[status |-> HTTP_OK,
                                            body |-> Json([status |-> "ok",
                                                           service |-> "maple-proxy",
                                                           version |-> "CARGO_PKG_VERSION"])]>>]
                /\ req[r].calls = <<>> /\ req[r].log = <<>>
                /\ req[r].api_key = None /\ req[r].client = None
                /\ config' = config
                /\ \A s \in Requests \ {r} : req'[s] = req[s]]_vars

\* GET / has been answered under a configuration without default key, with
\* no Authorization header, while the other request waits for its handshake.
C11_Witness ==
    /\ config.default_api_key = None
    /\ req["r1"].pc = "done"
    /\ req["r1"].path = "/"
    /\ req["r1"].headers = None
    /\ req["r1"].resp[1].status = HTTP_OK
    /\ req["r2"].pc = "handshake"

\* ---------------------------------------------------------------- C12

\* C12: once the client of a streaming response has disconnected, the
\* producer pulls no further item from the backend stream and emits no
\* further event, data, error or [DONE]; and every event emitted before the
\* disconnect is a whole event: the event of one item pulled, or [DONE].
C12_NothingAfterDisconnect ==
    [][\A r \in Requests :
          req[r].pc = "dropped"
          => /\ \A i \in 1..Len(req[r].events) :
                   \/ req[r].events[i] = done_event
                   \/ /\ i <= Len(req[r].bstream)
                      /\ i <= req[r].pulls
                      /\ EventOfItem(req[r].events[i], req[r].bstream[i])
             /\ \/ req'[r] = req[r]
                \/ req'[r] = IdleReq]_vars

\* The client has gone after the first of two chunks.
C12_Witness ==
    \E r \in Requests :
       /\ req[r].pc = "dropped"
       /\ req[r].bstream = <<Ok("c1"), Ok("c2")>>
       /\ req[r].pulls = 1
       /\ Len(req[r].events) = 1

\* ---------------------------------------------------------------- C13

\* The log records that interpolate no part of the key.
KeylessLogs ==
    {"Chat completion request for model: {}, stream: {:?}",
     "Embeddings request for model: {}",
     "Attestation handshake failed: {}",
     "Failed to get models: {}", "Successfully retrieved {} models",
     "Failed to create embeddings: {}",
     "Successfully created embeddings with {} vectors",
     "Failed to create chat completion: {}",
     "Successfully created chat completion: {}",
     "Failed to create streaming chat completion: {}",
     "Failed to serialize chunk: {}", "Stream error: {}"}

\* p is a prefix of s and shorter than s.
IsProperPrefix(p, s) == Len(p) < Len(s) /\ p = SubSeq(s, 1, Len(p))

\* C13: no log record of a handler holds the whole credential: a record
\* that interpolates the key holds a proper prefix of it, whatever the
\* length of the key (eight bytes or fewer included).
C13_KeyNeverLoggedWhole ==
    \A r \in Requests :
       \A i \in 1..Len(req[r].log) :
          \/ req[r].log[i].msg \in KeylessLogs
          \/ /\ IsSome(req[r].api_key)
             /\ IsProperPrefix(req[r].log[i].args[1], req[r].api_key.val)

\* ---------------------------------------------------------------- C14

\* The number of calls of c whose function is in fns.
CountCalls(c, fns) == Cardinality({i \in 1..Len(c) : c[i].fn \in fns})

\* C14: nothing is retried: in every request the client is constructed at
\* most once, the handshake is made at most once and at most one backend
\* call is made, whatever the outcome of each step.
C14_NoRetry ==
    \A r \in Requests :
       LET c == req[r].calls IN
       /\ CountCalls(c, {"extract_api_key"}) <= 1
       /\ CountCalls(c, {"new_with_api_key"}) <= 1
       /\ CountCalls(c, {"perform_attestation_handshake"}) <= 1
       /\ CountCalls(c, BackendOps) <= 1
       /\ IsSome(req[r].failure) => req[r].pc = "done" /\ ~c[Len(c)].ok

\* A request whose construction failed is over, after one construction.
C14_Witness ==
    \E r \in Requests :
       /\ req[r].pc = "done"
       /\ IsSome(req[r].failure)
       /\ req[r].failure.val.stage = "construct"
       /\ CountCalls(req[r].calls, {"new_with_api_key"}) = 1

\* ---------------------------------------------------------------- C15

\* The number of items the producer has pulled from the backend stream (the
\* pull that finds the stream exhausted yields no item).
ItemsPulled(q) == Min(q.pulls, Len(q.bstream))

\* C15: the translator does not buffer: at every point of a streaming
\* response the items pulled exceed the events emitted by at most one, and
\* the event of item k is emitted before item k + 1 is pulled, so the first
\* event is out before the backend stream has given its last chunk.
C15_NoBuffering ==
    \A r \in Requests :
       LET q == req[r] IN
       /\ ItemsPulled(q) <= Len(q.events) + 1
       /\ \A k \in 1..(ItemsPulled(q) - 1) :
             /\ k <= Len(q.events)
             /\ EventOfItem(q.events[k], q.bstream[k])

\* The first event is out and the second of two chunks is still to come.
C15_Witness ==
    \E r \in Requests :
       /\ req[r].pc = "sse"
       /\ req[r].bstream = <<Ok("c2"), Ok("c1")>>
       /\ req[r].pulls = 1
       /\ req[r].events = <<data_event(to_string("c2").val)>>

\* ---------------------------------------------------------------- C16

\* C16: after a transport error, or a chunk that does not serialize, the
\* producer pulls no further item, whatever the backend stream still holds:
\* the pulls stop at the index of the first failing item.
C16_NoPullAfterFailure ==
    \A r \in Requests :
       LET q == req[r]
           f == FirstFailure(q.bstream)
       IN  f # 0
           => /\ q.pulls <= f
              /\ q.gen \in {"break", "done", "end"} => q.pulls = f

\* The stream has ended after its first item failed, a chunk left unpulled.
C16_Witness ==
    \E r \in Requests :
       /\ StreamEnded(req[r])
       /\ req[r].bstream = <<Ok("cbad"), Ok("c1")>>
       /\ req[r].pulls = 1

\* ---------------------------------------------------------------- C17

\* C17: a backend call is made only on a session whose handshake has
\* succeeded: in every request the construction of the client comes before
\* the handshake and the handshake before the backend call, and the session
\* of a request is the one that request constructed and verified itself,
\* once, not one taken over from an earlier or concurrent request.
C17_OwnAttestedSession ==
    \A r \in Requests :
       LET q == req[r]
           c == q.calls
       IN  /\ IsSome(q.client)
              => /\ Len(c) >= 2
                 /\ c[2].fn = "new_with_api_key" /\ c[2].ok
           /\ (IsSome(q.client) /\ q.client.val.attested)
              => /\ Len(c) >= 3
                 /\ c[3].fn = "perform_attestation_handshake" /\ c[3].ok
           /\ \A i \in 1..Len(c) :
                 c[i].fn \in BackendOps
                 => /\ c[i].attested
                    /\ IsSome(q.client) /\ q.client.val.attested
                    /\ i > 3
                    /\ CountCalls(c, {"new_with_api_key"}) = 1
                    /\ CountCalls(c, {"perform_attestation_handshake"}) = 1

\* Two requests at once have each made their backend call on their own
\* verified session.
C17_Witness ==
    /\ Len(req["r1"].calls) = 4
    /\ Len(req["r2"].calls) = 4
    /\ req["r1"].calls[4].attested
    /\ req["r2"].calls[4].attested
    /\ req["r1"].pc = "sse"

\* ---------------------------------------------------------------- C18

\* C18: under every interleaving of two requests, a request has one
\* resolved credential, which does not change, and at most one session; the
\* session and the backend call of a request are bound to the credential of
\* that request, which is the one extract_api_key gives for its own headers;
\* a step of one request changes nothing of the other; and no step changes
\* the configuration, the only state both requests read.
C18_RequestIsolation ==
    [][/\ config' = config
       /\ \A r \in Requests :
             LET q == req'[r] IN
             /\ IsSome(q.api_key)
                => q.api_key.val = extract_api_key(q.headers, config.default_api_key).val
             /\ (IsSome(req[r].api_key) /\ q.pc # "idle")
                => q.api_key = req[r].api_key
             /\ IsSome(q.client)
                => /\ IsSome(q.api_key)
                   /\ q.client.val.api_key = q.api_key.val
             /\ (IsSome(req[r].client) /\ q.pc # "idle")
                => /\ IsSome(q.client)
                   /\ q.client.val.api_key = req[r].client.val.api_key
             /\ \A i \in 1..Len(q.calls) :
                   q.calls[i].fn \in BackendOps
                   => q.calls[i].key = q.api_key.val
             /\ req'[r] # req[r]
                => \A s \in Requests \ {r} : req'[s] = req[s]]_vars

\* Two requests with different credentials have each made their backend
\* call.
C18_Witness ==
    /\ Len(req["r1"].calls) = 4
    /\ Len(req["r2"].calls) = 4
    /\ req["r1"].calls[4].key = <<97>>
    /\ req["r2"].calls[4].key = <<98>>

\* ---------------------------------------------------------------- C19

\* C19: a streaming response terminates: whatever the items of the finite
\* backend stream, chunks and errors, a response whose client keeps polling
\* comes to the end of its outbound sequence (unless the client disconnects
\* first), and it emits at most one event more than the backend stream has
\* items.
C19_StreamTerminates ==
    \A r \in Requests :
       /\ [](Len(req[r].events) <= Len(req[r].bstream) + 1)
       /\ (req[r].pc = "sse") ~> (StreamEnded(req[r]) \/ req[r].pc = "dropped")

\* A stream of two chunks has ended after three events.
C19_Witness ==
    \E r \in Requests :
       /\ StreamEnded(req[r])
       /\ Len(req[r].bstream) = 2
       /\ FirstFailure(req[r].bstream) = 0
       /\ Len(req[r].events) = 3

\* ---------------------------------------------------------------- C20

\* C20: the router of create_app enters a handler for exactly GET /health,
\* GET / (health_check), GET /v1/models (list_models) and POST
\* /v1/chat/completions (create_chat_completion); create_embeddings has no
\* route, so no request that comes through the router makes the backend
\* call create_embeddings.
C20_RouterHasNoEmbeddings ==
    \A r \in Requests :
       LET q == req[r] IN
       q.via = "router"
       => /\ q.handler =
                (CASE q.method = "GET" /\ q.path \in {"/health", "/"} -> "health_check"
                   [] q.method = "GET" /\ q.path = "/v1/models" -> "list_models"
                   [] q.method = "POST" /\ q.path = "/v1/chat/completions" ->
                        "create_chat_completion"
                   [] OTHER -> "none")
          /\ \A i \in 1..Len(q.calls) : q.calls[i].fn # "create_embeddings"
          /\ q.handler = "none" => q.calls = <<>> /\ q.pc \in {"handler", "done"}

\* POST /v1/embeddings has come through the router and found no route.
C20_Witness ==
    \E r \in Requests :
       /\ req[r].via = "router"
       /\ req[r].method = "POST"
       /\ req[r].path = "/v1/embeddings"
       /\ req[r].pc = "done"
       /\ req[r].resp[1].status = NOT_FOUND

====
